---- MODULE Spec2Model ----
(***************************************************************************)
(* Model of the GIF structural decoder of sample/gif/gif.node.js: the      *)
(* record catalogue (gifParserStructure), the Block Sequencer (DataBlocks) *)
(* and the top-level 'GIF Data Stream' record, run over a byte buffer.     *)
(*                                                                         *)
(* A buffer is a sequence of bytes 0..255; the cursor `pos` is the 0-based *)
(* byte offset of the next read, so the byte at offset p is b[p + 1].      *)
(* Every parser is an operator from (buffer, offset) to a result           *)
(*   [ok, pos, val, err]                                                   *)
(* where ok = FALSE stands for a thrown exception.  JavaScript null and    *)
(* undefined are both written as the empty tuple <<>>.                     *)
(***************************************************************************)
EXTENDS Integers, Sequences, FiniteSets, TLC

VARIABLES buf, pos, pc, header, screen, blocks, GraphicBlockIndex, trailer, error, spans

vars == <<buf, pos, pc, header, screen, blocks, GraphicBlockIndex, trailer, error, spans>>

(***************************************************************************)
(* Results and errors                                                      *)
(***************************************************************************)
NULL == <<>>

NoError == [kind |-> "none", name |-> "", expect |-> <<>>, actual |-> <<>>, position |-> 0]

Ok(p, v) == [ok |-> TRUE, pos |-> p, val |-> v, err |-> NoError]

Fail(p, e) == [ok |-> FALSE, pos |-> p, val |-> NULL, err |-> e]

\* End-of-stream condition of the cursor engine, raised at offset p.
Truncation(p) == [kind |-> "Truncation", name |-> "", expect |-> <<>>, actual |-> <<>>, position |-> p]

(***************************************************************************)
(* Cursor engine (jparser.js / jDataView): primitive reads, little-endian  *)
(***************************************************************************)
\* 'uint8'
Byte(b, p) ==
    IF p + 1 <= Len(b) THEN Ok(p + 1, b[p + 1]) ELSE Fail(p, Truncation(p))

\* 'uint16', little-endian
Unsigned(b, p) ==
    IF p + 2 <= Len(b) THEN Ok(p + 2, b[p + 1] + 256 * b[p + 2])
    ELSE Fail(p, Truncation(p))

\* 'uint32', little-endian (the inputs keep the top byte below 128, so that
\* the value stays within the checker's integers)
Uint32(b, p) ==
    IF p + 4 <= Len(b)
    THEN Ok(p + 4, b[p + 1] + 256 * b[p + 2] + 65536 * b[p + 3] + 16777216 * b[p + 4])
    ELSE Fail(p, Truncation(p))

\* ['string', n] and ['array', 'Byte', n]: the n bytes (char codes) at the cursor
String(b, p, n) ==
    IF p + n <= Len(b) THEN Ok(p + n, SubSeq(b, p + 1, p + n)) ELSE Fail(p, Truncation(p))

\* this.skip(n): a skip beyond the end of the buffer is an end-of-stream error
Skip(b, p, n) ==
    IF p + n <= Len(b) THEN Ok(p + n, NULL) ELSE Fail(p, Truncation(p))

\* Bit-field of `width` bits whose lowest bit is bit `low` of the byte
\* (fields of a packed byte are laid out most-significant bit first).
Bits(byte, low, width) == (byte \div (2 ^ low)) % (2 ^ width)

\* rgb: ['array', 'uint8', 3]
rgb(b, p) == String(b, p, 3)

\* ['array', 'rgb', n]: n entries read one after another; the read of the
\* first entry that does not fit in the buffer fails
RgbArray(b, p, n) ==
    LET fit == (Len(b) - p) \div 3 IN
    IF n <= fit
    THEN Ok(p + 3 * n, [i \in 1..n |-> rgb(b, p + 3 * (i - 1)).val])
    ELSE Fail(p + 3 * fit, rgb(b, p + 3 * fit).err)

(***************************************************************************)
(* labelsDef                                                               *)
(***************************************************************************)
ExtensionIntroducer == 33

PlainTextLabel == 1

ImageDescriptorLabel == 44

GraphicControlLabel == 249

TrailerLabel == 59

CommentLabel == 254

ApplicationLabel == 255

(***************************************************************************)
(* Fixed-value validators                                                  *)
(***************************************************************************)
\* Character code of the hexadecimal digit d, upper case
HexDigit(d) == IF d < 10 THEN 48 + d ELSE 55 + d

\* byteToHex: '0x' and two upper-case hexadecimal digits, as character codes
byteToHex(byte) == <<48, 120, HexDigit(byte \div 16), HexDigit(byte % 16)>>

\* The check of FixedByte on the outcome r of its read. The position in
\* the message is tell() - 1, taken after the read.
FixedByteCheck(r, expectValue, name, format) ==
    IF ~r.ok THEN r
    ELSE IF r.val # expectValue
         THEN Fail(r.pos, [kind |-> "FixedByte",
                           name |-> IF name = "" THEN "Fixed Byte" ELSE name,
                           expect |-> <<expectValue>>,
                           actual |-> <<r.val>>, position |-> r.pos - 1])
         ELSE Ok(r.pos, IF format = "number" THEN r.val ELSE byteToHex(r.val))

\* FixedByte(expectValue, name, format)
FixedByte(b, p, expectValue, name, format) ==
    FixedByteCheck(Byte(b, p), expectValue, name, format)

\* The check of FixedString on the outcome r of its read. The position in
\* the message is tell() - 1, taken after the read.
FixedStringCheck(r, expectValue, name) ==
    IF ~r.ok THEN r
    ELSE IF r.val # expectValue
         THEN Fail(r.pos, [kind |-> "FixedString", name |-> name, expect |-> expectValue,
                           actual |-> r.val, position |-> r.pos - 1])
         ELSE Ok(r.pos, r.val)

\* FixedString(expectValue, name)
FixedString(b, p, expectValue, name) ==
    FixedStringCheck(String(b, p, Len(expectValue)), expectValue, name)

\* bytesToHex: '[', the bytes as two upper-case hexadecimal digits each,
\* joined by one space, ']', as character codes
bytesToHex(bytes) ==
    IF bytes = <<>> THEN <<91, 93>>
    ELSE [k \in 1..(3 * Len(bytes) + 1) |->
            IF k = 1 THEN 91
            ELSE IF k % 3 = 2 THEN HexDigit(bytes[(k + 1) \div 3] \div 16)
            ELSE IF k % 3 = 0 THEN HexDigit(bytes[k \div 3] % 16)
            ELSE IF k = 3 * Len(bytes) + 1 THEN 93
            ELSE 32]

\* The checks of FixedByteArray on the outcome r of its read: the length,
\* then byte by byte. The position in the message is tell() - 1, taken
\* after the read; the value returned is the expectation in hexadecimal.
FixedByteArrayCheck(r, expectBytes) ==
    IF ~r.ok THEN r
    ELSE IF \/ Len(r.val) # Len(expectBytes)
            \/ \E i \in 1..Len(expectBytes) : r.val[i] # expectBytes[i]
         THEN Fail(r.pos, [kind |-> "FixedByteArray", name |-> "FixedByteArray",
                           expect |-> expectBytes, actual |-> r.val,
                           position |-> r.pos - 1])
         ELSE Ok(r.pos, bytesToHex(expectBytes))

\* FixedByteArray(expectBytes)
FixedByteArray(b, p, expectBytes) ==
    FixedByteArrayCheck(String(b, p, Len(expectBytes)), expectBytes)

(***************************************************************************)
(* Sub-block chains                                                        *)
(***************************************************************************)
\* 'Data Sub-block' after this.skip(size), whose outcome is s
DataSubBlockSkipped(size, start, s) ==
    IF ~s.ok THEN s
    ELSE Ok(s.pos, [type |-> "Data Sub-block", size |-> size, start |-> start])

\* Mutant: start is the offset of the length byte
DataSubBlockSized_StartAtLength(b, before, size) ==
    IF ~size.ok THEN size
    ELSE IF size.val = 0 THEN Ok(before, NULL)
    ELSE DataSubBlockSkipped(size.val, before, Skip(b, size.pos, size.val))

\* Mutant: a skip that fails is swallowed as TRY does, the cursor goes back
\* and the chain ends there
DataSubBlockSized_TrySkip(b, before, size) ==
    IF ~size.ok THEN size
    ELSE IF size.val = 0 THEN Ok(before, NULL)
    ELSE IF ~Skip(b, size.pos, size.val).ok THEN Ok(before, NULL)
    ELSE DataSubBlockSkipped(size.val, size.pos, Skip(b, size.pos, size.val))

\* 'Data Sub-block' after the read of its length byte, whose outcome is size:
\* undefined (NULL) with the cursor back at `before` when the length is 0,
\* otherwise {type, size, start} with the cursor past the payload.
DataSubBlockSized(b, before, size) ==
    IF ~size.ok THEN size
    ELSE IF size.val = 0 THEN Ok(before, NULL)
    ELSE DataSubBlockSkipped(size.val, size.pos, Skip(b, size.pos, size.val))

\* 'Data Sub-block'
DataSubBlock(b, p) == DataSubBlockSized(b, p, Byte(b, p))

RECURSIVE DataSubBlockArray(_, _, _)
\* One turn of the loop of 'Data Sub-block Array' on the outcome of
\* this.parse('Data Sub-block')
DataSubBlockArrayTurn(b, acc, block) ==
    IF ~block.ok THEN block
    ELSE IF block.val = NULL THEN Ok(block.pos, acc)
    ELSE DataSubBlockArray(b, block.pos, Append(acc, block.val))

\* 'Data Sub-block Array'
DataSubBlockArray(b, p, acc) == DataSubBlockArrayTurn(b, acc, DataSubBlock(b, p))

(***************************************************************************)
(* The schema is data: a record layout is the sequence of its fields, each *)
(* [kind, n, bytes, name, format], read one after another by Structure.    *)
(***************************************************************************)
F(kind, n, bytes, name, format) ==
    [kind |-> kind, n |-> n, bytes |-> bytes, name |-> name, format |-> format]

ByteField == F("Byte", 1, <<>>, "", "")

UnsignedField == F("Unsigned", 2, <<>>, "", "")

Uint32Field == F("uint32", 4, <<>>, "", "")

StringField(n) == F("string", n, <<>>, "", "")

FixedByteField(expectValue, name, format) == F("FixedByte", expectValue, <<>>, name, format)

FixedStringField(expectValue) == F("FixedString", Len(expectValue), expectValue, "Fixed String", "")

SubBlockArrayField == F("Data Sub-block Array", 0, <<>>, "", "")

\* function () { return this.tell(); }
TellField == F("tell", 0, <<>>, "", "")

\* 'Block Terminator': ['FixedByte', 0x00, 'Block Terminator']
BlockTerminatorField == FixedByteField(0, "Block Terminator", "")

\* 'Extension Introducer': ['FixedByte', 0x21, 'Extension Introducer']
ExtensionIntroducerField == FixedByteField(ExtensionIntroducer, "Extension Introducer", "")

ReadField(b, p, f) ==
    CASE f.kind = "Byte" -> Byte(b, p)
      [] f.kind = "Unsigned" -> Unsigned(b, p)
      [] f.kind = "uint32" -> Uint32(b, p)
      [] f.kind = "string" -> String(b, p, f.n)
      [] f.kind = "FixedByte" -> FixedByte(b, p, f.n, f.name, f.format)
      [] f.kind = "FixedString" -> FixedString(b, p, f.bytes, f.name)
      [] f.kind = "Data Sub-block Array" -> DataSubBlockArray(b, p, <<>>)
      [] f.kind = "tell" -> Ok(p, p)

RECURSIVE Structure(_, _, _, _)
\* The rest of an object after the outcome r of its first field
StructureRest(b, layout, acc, r) ==
    IF ~r.ok THEN r
    ELSE Structure(b, r.pos, Tail(layout), Append(acc, r.val))

\* An object of the schema: its fields in order; a field that throws ends
\* the parse with the cursor where that field left it.
Structure(b, p, layout, acc) ==
    IF layout = <<>> THEN Ok(p, acc)
    ELSE StructureRest(b, layout, acc, ReadField(b, p, Head(layout)))

(***************************************************************************)
(* Records of the structural schema: each is its layout and the value      *)
(* built from the values r.val of its fields.                              *)
(***************************************************************************)
HeaderLayout == <<StringField(3), StringField(3)>>

HeaderValue(r) ==
    IF ~r.ok THEN r
    ELSE Ok(r.pos, [Signature |-> r.val[1], Version |-> r.val[2]])

Header(b, p) == HeaderValue(Structure(b, p, HeaderLayout, <<>>))

\* Mutant: the flag is taken from the lowest bit of the packed byte
LogicalScreenPackedFields_FlagLowBit(byte) ==
    [GlobalColorTableFlag |-> Bits(byte, 0, 1),
     ColorResolution |-> Bits(byte, 4, 3),
     SortFlag |-> Bits(byte, 3, 1),
     SizeOfGlobalColorTable |-> Bits(byte, 0, 3)]

LogicalScreenPackedFields(byte) ==
    [GlobalColorTableFlag |-> Bits(byte, 7, 1),
     ColorResolution |-> Bits(byte, 4, 3),
     SortFlag |-> Bits(byte, 3, 1),
     SizeOfGlobalColorTable |-> Bits(byte, 0, 3)]

LogicalScreenDescriptorLayout ==
    <<UnsignedField, UnsignedField, ByteField, ByteField, ByteField>>

LogicalScreenDescriptorValue(r) ==
    IF ~r.ok THEN r
    ELSE Ok(r.pos, [width |-> r.val[1], height |-> r.val[2],
                    PackedFields |-> LogicalScreenPackedFields(r.val[3]),
                    BackgroundColorIndex |-> r.val[4],
                    PixelAspectRatio |-> r.val[5]])

LogicalScreenDescriptor(b, p) ==
    LogicalScreenDescriptorValue(Structure(b, p, LogicalScreenDescriptorLayout, <<>>))

\* Mutant: 1 << SizeOfColorTable entries
ColorTable_NoPlusOne(b, p, ColorTableFlag, SizeOfColorTable) ==
    IF ColorTableFlag # 0
    THEN RgbArray(b, p, 2 ^ SizeOfColorTable)
    ELSE Ok(p, NULL)

\* ColorTable(ColorTableFlag, SizeOfColorTable)
ColorTable(b, p, ColorTableFlag, SizeOfColorTable) ==
    IF ColorTableFlag # 0
    THEN LET unitBitCount == SizeOfColorTable + 1
             colorsCount == 2 ^ unitBitCount
         IN  RgbArray(b, p, colorsCount)
    ELSE Ok(p, NULL)

\* LogicalScreen after its Descriptor d and its GlobalColorTable t
LogicalScreenValue(d, t) ==
    IF ~t.ok THEN t
    ELSE Ok(t.pos, [type |-> "LogicalScreen", Descriptor |-> d.val,
                    GlobalColorTable |-> t.val])

\* LogicalScreen after its Descriptor d
LogicalScreenTable(b, d) ==
    IF ~d.ok THEN d
    ELSE LogicalScreenValue(d, ColorTable(b, d.pos,
                                          d.val.PackedFields.GlobalColorTableFlag,
                                          d.val.PackedFields.SizeOfGlobalColorTable))

LogicalScreen(b, p) == LogicalScreenTable(b, LogicalScreenDescriptor(b, p))

GraphicControlPackedFields(byte) ==
    [Reserved |-> Bits(byte, 5, 3),
     DisposalMethod |-> Bits(byte, 2, 3),
     UserInputFlag |-> Bits(byte, 1, 1),
     TransparentColorFlag |-> Bits(byte, 0, 1)]

GraphicControlExtensionLayout ==
    <<ExtensionIntroducerField,
      FixedByteField(GraphicControlLabel, "Graphic Control Label", ""),
      ByteField, ByteField, UnsignedField, ByteField,
      BlockTerminatorField>>

GraphicControlExtensionValue(r) ==
    IF ~r.ok THEN r
    ELSE Ok(r.pos, [ExtensionIntroducer |-> r.val[1],
                    GraphicControlLabel |-> r.val[2],
                    BlockSize |-> r.val[3],
                    PackedFields |-> GraphicControlPackedFields(r.val[4]),
                    DelayTime |-> r.val[5],
                    TransparentColorIndex |-> r.val[6],
                    BlockTerminator |-> r.val[7]])

GraphicControlExtension(b, p) ==
    GraphicControlExtensionValue(Structure(b, p, GraphicControlExtensionLayout, <<>>))

PlainTextExtensionLayout ==
    <<ExtensionIntroducerField,
      FixedByteField(PlainTextLabel, "Plain Text Label", ""),
      ByteField, UnsignedField, UnsignedField, UnsignedField, UnsignedField,
      ByteField, ByteField, ByteField, ByteField,
      SubBlockArrayField,
      BlockTerminatorField>>

PlainTextExtensionValue(r) ==
    IF ~r.ok THEN r
    ELSE Ok(r.pos, [ExtensionIntroducer |-> r.val[1],
                    PlainTextLabel |-> r.val[2],
                    BlockSize |-> r.val[3],
                    TextGridLeftPosition |-> r.val[4],
                    TextGridTopPosition |-> r.val[5],
                    TextGridWidth |-> r.val[6],
                    TextGridHeight |-> r.val[7],
                    CharacterCellWidth |-> r.val[8],
                    CharacterCellHeight |-> r.val[9],
                    TextForegroundColorIndex |-> r.val[10],
                    TextBackgroundColorIndex |-> r.val[11],
                    PlainTextData |-> r.val[12],
                    BlockTerminator |-> r.val[13]])

PlainTextExtension(b, p) ==
    PlainTextExtensionValue(Structure(b, p, PlainTextExtensionLayout, <<>>))

CommentExtensionLayout ==
    <<ExtensionIntroducerField,
      FixedByteField(CommentLabel, "Comment Label", ""),
      SubBlockArrayField,
      BlockTerminatorField>>

CommentExtensionValue(r) ==
    IF ~r.ok THEN r
    ELSE Ok(r.pos, [ExtensionIntroducer |-> r.val[1],
                    CommentLabel |-> r.val[2],
                    CommentData |-> r.val[3],
                    BlockTerminator |-> r.val[4]])

CommentExtension(b, p) ==
    CommentExtensionValue(Structure(b, p, CommentExtensionLayout, <<>>))

\* The generic ApplicationExtension
ApplicationExtensionLayout ==
    <<ExtensionIntroducerField,
      FixedByteField(ApplicationLabel, "Extension Label", ""),
      ByteField, StringField(8), StringField(3),
      SubBlockArrayField,
      BlockTerminatorField>>

ApplicationExtensionValue(r) ==
    IF ~r.ok THEN r
    ELSE Ok(r.pos, [ExtensionIntroducer |-> r.val[1],
                    ExtensionLabel |-> r.val[2],
                    BlockSize |-> r.val[3],
                    ApplicationIdentifier |-> r.val[4],
                    AuthenticationCode |-> r.val[5],
                    ApplicationData |-> r.val[6],
                    BlockTerminator |-> r.val[7]])

ApplicationExtension(b, p) ==
    ApplicationExtensionValue(Structure(b, p, ApplicationExtensionLayout, <<>>))

\* Character codes of the identifier and authentication strings
NETSCAPE == <<78, 69, 84, 83, 67, 65, 80, 69>>

AnimExts == <<65, 110, 105, 109, 69, 120, 116, 115>>

ANIMEXTS == <<65, 78, 73, 77, 69, 88, 84, 83>>

Auth20 == <<50, 46, 48>>

Auth10 == <<49, 46, 48>>

\* Mutant: 'Loop Count' read as one byte
NetscapeLoopingSubBlockLayout_Byte ==
    <<FixedByteField(3, "", "number"), TellField, FixedByteField(1, "", ""), ByteField>>

\* 'Netscape Looping Sub Block': size, start, ID, 'Loop Count'
NetscapeLoopingSubBlockLayout ==
    <<FixedByteField(3, "", "number"), TellField, FixedByteField(1, "", ""), UnsignedField>>

\* Mutant: 'Buffer Size' read as a 16-bit integer
NetscapeBufferingSubBlockLayout_Uint16 ==
    <<FixedByteField(5, "", "number"), TellField, FixedByteField(2, "", ""), UnsignedField>>

\* 'Netscape Buffering Sub Block': size, start, ID, 'Buffer Size'
NetscapeBufferingSubBlockLayout ==
    <<FixedByteField(5, "", "number"), TellField, FixedByteField(2, "", ""), Uint32Field>>

\* The values of the two vendor sub-blocks from the values r of the fields
\* of the extension that holds them
NetscapeLoopingSubBlock(r) ==
    [type |-> "Data Sub-block", size |-> r[6], start |-> r[7], ID |-> r[8], LoopCount |-> r[9]]

NetscapeBufferingSubBlock(r) ==
    [type |-> "Data Sub-block", size |-> r[6], start |-> r[7], ID |-> r[8], BufferSize |-> r[9]]

\* The layout the three vendor extensions share: introducer, label, block
\* size 0x0B, fixed identifier, fixed authentication code, an array of one
\* vendor sub-block, terminator.
VendorLayout(identifier, authentication, subBlockLayout) ==
    <<ExtensionIntroducerField,
      FixedByteField(ApplicationLabel, "Extension Label", ""),
      FixedByteField(11, "Extension Label", "number"),
      FixedStringField(identifier),
      FixedStringField(authentication)>>
    \o subBlockLayout
    \o <<BlockTerminatorField>>

\* The value of a vendor extension from the values r of its fields
VendorValue(netscape, name, r, subBlock) ==
    [Netscape |-> netscape,
     Name |-> name,
     ExtensionIntroducer |-> r[1],
     ExtensionLabel |-> r[2],
     BlockSize |-> r[3],
     ApplicationIdentifier |-> r[4],
     AuthenticationCode |-> r[5],
     ApplicationData |-> <<subBlock>>,
     BlockTerminator |-> r[10]]

NetscapeLoopingLayout == VendorLayout(NETSCAPE, Auth20, NetscapeLoopingSubBlockLayout)

NetscapeLoopingValue(r) ==
    IF ~r.ok THEN r
    ELSE Ok(r.pos, VendorValue("Looping", "Netscape Looping Application Extension",
                               r.val, NetscapeLoopingSubBlock(r.val)))

\* 'Netscape Looping Application Extension'
NetscapeLoopingApplicationExtension(b, p) ==
    NetscapeLoopingValue(Structure(b, p, NetscapeLoopingLayout, <<>>))

NetscapeBufferingLayout == VendorLayout(NETSCAPE, Auth20, NetscapeBufferingSubBlockLayout)

NetscapeBufferingValue(r) ==
    IF ~r.ok THEN r
    ELSE Ok(r.pos, VendorValue("Buffering", "Netscape Buffering Application Extension",
                               r.val, NetscapeBufferingSubBlock(r.val)))

\* 'Netscape Buffering Application Extension'
NetscapeBufferingApplicationExtension(b, p) ==
    NetscapeBufferingValue(Structure(b, p, NetscapeBufferingLayout, <<>>))

AnimExtsLoopingLayout == VendorLayout(ANIMEXTS, Auth10, NetscapeLoopingSubBlockLayout)

\* 'AnimExts Looping Application Extension'
AnimExtsLoopingApplicationExtension(b, p) ==
    NetscapeLoopingValue(Structure(b, p, AnimExtsLoopingLayout, <<>>))

ImagePackedFields(byte) ==
    [LocalColorTableFlag |-> Bits(byte, 7, 1),
     InterlaceFlag |-> Bits(byte, 6, 1),
     SortFlag |-> Bits(byte, 5, 1),
     Reserved |-> Bits(byte, 3, 2),
     SizeOfLocalColorTable |-> Bits(byte, 0, 3)]

ImageDescriptorLayout ==
    <<ByteField, UnsignedField, UnsignedField, UnsignedField, UnsignedField, ByteField>>

ImageDescriptorValue(r) ==
    IF ~r.ok THEN r
    ELSE Ok(r.pos, [Separator |-> r.val[1], LeftPosition |-> r.val[2],
                    TopPosition |-> r.val[3], Width |-> r.val[4], Height |-> r.val[5],
                    PackedFields |-> ImagePackedFields(r.val[6])])

ImageDescriptor(b, p) == ImageDescriptorValue(Structure(b, p, ImageDescriptorLayout, <<>>))

\* 'Table Based Image Data'
TableBasedImageDataLayout == <<ByteField, SubBlockArrayField, BlockTerminatorField>>

TableBasedImageDataValue(r) ==
    IF ~r.ok THEN r
    ELSE Ok(r.pos, [LZWMinimumCodeSize |-> r.val[1], DataSubBlocks |-> r.val[2],
                    BlockTerminator |-> r.val[3]])

TableBasedImageData(b, p) ==
    TableBasedImageDataValue(Structure(b, p, TableBasedImageDataLayout, <<>>))

\* TableBasedImage after its ImageDescriptor d, LocalColorTable t and ImageData i
TableBasedImageValue(d, t, i) ==
    IF ~i.ok THEN i
    ELSE Ok(i.pos, [type |-> "TableBasedImage", ImageDescriptor |-> d.val,
                    LocalColorTable |-> t.val, ImageData |-> i.val])

\* TableBasedImage after its ImageDescriptor d and LocalColorTable t
TableBasedImageBody(b, d, t) ==
    IF ~t.ok THEN t
    ELSE TableBasedImageValue(d, t, TableBasedImageData(b, t.pos))

\* TableBasedImage after its ImageDescriptor d
TableBasedImageTable(b, d) ==
    IF ~d.ok THEN d
    ELSE TableBasedImageBody(b, d, ColorTable(b, d.pos,
                                              d.val.PackedFields.LocalColorTableFlag,
                                              d.val.PackedFields.SizeOfLocalColorTable))

TableBasedImage(b, p) == TableBasedImageTable(b, ImageDescriptor(b, p))

\* Mutant: the byte is compared with itself, so that any byte passes
Trailer_Unchecked(b, p) == FixedByteCheck(Byte(b, p), Byte(b, p).val, "Trailer", "")

\* Trailer: ['FixedByte', 0x3B, 'Trailer']
Trailer(b, p) == FixedByte(b, p, TrailerLabel, "Trailer", "")

\* Mutant: a failed trial leaves the cursor where the failure occurred
TRY_NoRestore(before, r) ==
    IF r.ok THEN Ok(r.pos, r.val) ELSE Ok(r.pos, NULL)

\* TRY: r is the outcome of the trial parse started at offset `before`;
\* a failure of any kind is swallowed, the cursor goes back to `before`
\* and the result is undefined.
TRY(before, r) ==
    IF r.ok THEN Ok(r.pos, r.val) ELSE Ok(before, NULL)

(***************************************************************************)
(* Block Sequencer (DataBlocks): the outcome of one pass of the while loop *)
(* started with the cursor at `before` and the counter at idx.             *)
(*   status  "continue" (a block was pushed), "break" or "throw"           *)
(*   pos     the cursor when the pass ends                                 *)
(*   push    the blocks pushed by the pass (none or one)                   *)
(*   idx     GraphicBlockIndex when the pass ends                          *)
(*   span    for a pushed block, <<[first, last]>>: the offset the pass    *)
(*           started at and the cursor just after the parse that produced  *)
(*           the pushed value                                              *)
(***************************************************************************)
Emit(p, block, idx, first, last) ==
    [status |-> "continue", pos |-> p, push |-> <<block>>, idx |-> idx,
     err |-> NoError, span |-> <<[first |-> first, last |-> last]>>]

\* Mutant: the loop ends without seeking back, the introducer stays consumed
Break_NoRewind(p, idx) ==
    [status |-> "break", pos |-> p + 1, push |-> <<>>, idx |-> idx,
     err |-> NoError, span |-> <<>>]

Break(p, idx) ==
    [status |-> "break", pos |-> p, push |-> <<>>, idx |-> idx,
     err |-> NoError, span |-> <<>>]

Throw(p, idx, e) ==
    [status |-> "throw", pos |-> p, push |-> <<>>, idx |-> idx,
     err |-> e, span |-> <<>>]

ExpectGraphicRenderingBlock ==
    [kind |-> "Expect: Graphic-Rendering Block", name |-> "", expect |-> <<>>,
     actual |-> <<>>, position |-> -1]

\* ExtensionKeys.find(key => labelsDef[key] === ExtensionLabel)
ExtensionKey(label) ==
    CASE label = GraphicControlLabel -> "GraphicControlExtension"
      [] label = PlainTextLabel -> "PlainTextExtension"
      [] label = CommentLabel -> "CommentExtension"
      [] label = ApplicationLabel -> "ApplicationExtension"
      [] OTHER -> "undefined"

\* The Graphic Block pushed for a rendering block with no control extension
\* that was found by its introducer 0x2C
BareImageBlock(idx, image) ==
    [blockType |-> "Graphic Block",
     GraphicBlockIndex |-> idx,
     block |-> [GraphicControlExtension |-> NULL,
                GraphicRenderingBlock |-> image]]

\* The Graphic Block pushed by the two extension cases
GraphicBlock(subType, idx, control, rendering) ==
    [blockType |-> "Graphic Block",
     blockSubType |-> subType,
     GraphicBlockIndex |-> idx,
     GraphicControlExtension |-> control,
     GraphicRenderingBlock |-> rendering]

ExtensionBlock(key, value) == [blockType |-> key, ExtensionBlock |-> value]

\* Table-Based Image: the counter is already incremented when the outcome r
\* of this.parse('TableBasedImage') is known
TableBasedImagePush(before, idx, r) ==
    IF ~r.ok THEN Throw(r.pos, idx, r.err)
    ELSE Emit(r.pos, BareImageBlock(idx, r.val), idx, before, r.pos)

\* if (Introducer === labelsDef['ImageDescriptor'])
TableBasedImageCase(b, before, idx) ==
    TableBasedImagePush(before, idx + 1, TableBasedImage(b, before))

CommentPush(before, idx, r) ==
    IF ~r.ok THEN Throw(r.pos, idx, r.err)
    ELSE Emit(r.pos, ExtensionBlock("CommentExtension", r.val), idx, before, r.pos)

\* case 'CommentExtension'
CommentCase(b, before, idx) == CommentPush(before, idx, CommentExtension(b, before))

\* The push that ends case 'ApplicationExtension': g is the generic parse,
\* t the outcome of the last TRY made (cursor and, if it matched, the value
\* that replaces the generic one).
ApplicationPush(before, idx, g, t) ==
    IF t.val # NULL
    THEN Emit(t.pos, ExtensionBlock("ApplicationExtension", t.val), idx, before, t.pos)
    ELSE Emit(t.pos, ExtensionBlock("ApplicationExtension", g.val), idx, before, g.pos)

\* NETSCAPE, after TRY of the Looping layout gave `looping`
NetscapeSecondTry(b, before, idx, g, looping) ==
    IF looping.val # NULL
    THEN ApplicationPush(before, idx, g, looping)
    ELSE ApplicationPush(before, idx, g,
                         TRY(looping.pos,
                             NetscapeBufferingApplicationExtension(b, looping.pos)))

\* case 'ApplicationExtension' after the generic parse g
ApplicationDispatch(b, before, idx, g) ==
    IF ~g.ok THEN Throw(g.pos, idx, g.err)
    ELSE IF g.val.ApplicationIdentifier = NETSCAPE
    THEN NetscapeSecondTry(b, before, idx, g,
                           TRY(before, NetscapeLoopingApplicationExtension(b, before)))
    ELSE IF g.val.ApplicationIdentifier = AnimExts
    THEN ApplicationPush(before, idx, g,
                         TRY(before, AnimExtsLoopingApplicationExtension(b, before)))
    ELSE Emit(g.pos, ExtensionBlock("ApplicationExtension", g.val), idx, before, g.pos)

\* case 'ApplicationExtension'
ApplicationCase(b, before, idx) ==
    ApplicationDispatch(b, before, idx, ApplicationExtension(b, before))

\* The push that ends case 'GraphicControlExtension': g is the control
\* extension, r the outcome of the parse of the rendering block
GraphicControlPush(before, idx, g, subType, r) ==
    IF ~r.ok THEN Throw(r.pos, idx, r.err)
    ELSE Emit(r.pos, GraphicBlock(subType, idx + 1, g.val, r.val), idx + 1, before, r.pos)

\* Mutant: no throw; an unexpected byte pushes the control extension alone
GraphicControlRendering_NoThrow(b, before, idx, g, curr, label2) ==
    IF ~label2.ok THEN Throw(label2.pos, idx, label2.err)
    ELSE IF label2.val = ImageDescriptorLabel
    THEN GraphicControlPush(before, idx, g, "TableBasedImage", TableBasedImage(b, curr))
    ELSE IF label2.val = PlainTextLabel
    THEN GraphicControlPush(before, idx, g, "PlainTextExtension", PlainTextExtension(b, curr))
    ELSE Emit(curr, GraphicBlock("undefined", idx + 1, g.val, NULL), idx + 1, before, curr)

\* case 'GraphicControlExtension' after label2 was read at curr
GraphicControlRendering(b, before, idx, g, curr, label2) ==
    IF ~label2.ok THEN Throw(label2.pos, idx, label2.err)
    ELSE IF label2.val = ImageDescriptorLabel
    THEN GraphicControlPush(before, idx, g, "TableBasedImage", TableBasedImage(b, curr))
    ELSE IF label2.val = PlainTextLabel
    THEN GraphicControlPush(before, idx, g, "PlainTextExtension", PlainTextExtension(b, curr))
    ELSE Throw(label2.pos, idx, ExpectGraphicRenderingBlock)

\* case 'GraphicControlExtension' after the parse g of the control extension
GraphicControlPeek(b, before, idx, g) ==
    IF ~g.ok THEN Throw(g.pos, idx, g.err)
    ELSE GraphicControlRendering(b, before, idx, g, g.pos, Byte(b, g.pos))

\* case 'GraphicControlExtension'
GraphicControlCase(b, before, idx) ==
    GraphicControlPeek(b, before, idx, GraphicControlExtension(b, before))

\* Plain Text: the counter is already incremented when the outcome r of
\* this.parse('PlainTextExtension') is known
PlainTextPush(before, idx, r) ==
    IF ~r.ok THEN Throw(r.pos, idx, r.err)
    ELSE Emit(r.pos, GraphicBlock("PlainTextExtension", idx, NULL, r.val), idx, before, r.pos)

\* Mutant: the counter is not incremented for a bare Plain Text Extension
PlainTextCase_NoIncrement(b, before, idx) ==
    PlainTextPush(before, idx, PlainTextExtension(b, before))

\* case 'PlainTextExtension'
PlainTextCase(b, before, idx) ==
    PlainTextPush(before, idx + 1, PlainTextExtension(b, before))

(***************************************************************************)
(* Input buffers                                                           *)
(***************************************************************************)
\* Longest run of Core blocks in a generated stream
MaxSegs == 3

\* Most bytes cut off the end of a generated stream
MaxCut == 2

\* Passes of the sequencer loop explored on one input; it exceeds the
\* length of the shortest stream on which the loop does not advance.
MaxBlocks == 32

\* Values tried for payload bytes (loop count, buffer size)
SampleBytes == {0, 1, 255}

\* Values tried when one byte of a vendor extension is changed
MutationBytes == {0, 2, 10, 33}

GIF89a == <<71, 73, 70, 56, 57, 97>>

GIF87a == <<71, 73, 70, 56, 55, 97>>

NotGIF == <<80, 78, 71, 56, 57, 97>>

\* Logical Screen Descriptor, 1 x 1, with the given packed byte
LSD(packed) == <<1, 0, 1, 0, packed, 0, 0>>

\* n bytes of color table content
TableBytes(n) == [i \in 1..n |-> i % 256]

ColorTableBytes(N) == TableBytes(3 * (2 ^ (N + 1)))

Image0 == <<44, 0, 0, 0, 0, 1, 0, 1, 0, 0, 2, 0>>

Image2 == <<44, 0, 0, 0, 0, 1, 0, 1, 0, 0, 2, 2, 9, 9, 1, 7, 0>>

ImageLCT(N) == <<44, 0, 0, 0, 0, 1, 0, 1, 0, 128 + N>> \o ColorTableBytes(N) \o <<2, 1, 5, 0>>

CommentSeg == <<33, 254, 2, 72, 105, 0>>

Comment2Seg == <<33, 254, 1, 72, 3, 0, 33, 59, 0>>

PlainTextSeg == <<33, 1, 12, 0, 0, 0, 0, 1, 0, 1, 0, 8, 8, 1, 0, 1, 65, 0>>

GCESeg == <<33, 249, 4, 5, 10, 0, 0, 0>>

GCEBadSeg == <<33, 249, 4, 5, 10, 0, 0, 1>>

AppSeg(identifier, authentication, data) ==
    <<33, 255, 11>> \o identifier \o authentication \o data

AppGenericSeg == AppSeg(<<88, 77, 80, 32, 68, 97, 116, 97>>, <<88, 77, 80>>, <<1, 7, 0>>)

NetLoopSeg(lo, hi) == AppSeg(NETSCAPE, Auth20, <<3, 1, lo, hi, 0>>)

NetBufSeg(b0, b3) == AppSeg(NETSCAPE, Auth20, <<5, 2, b0, 1, 0, b3, 0>>)

AnimUpperSeg(lo, hi) == AppSeg(ANIMEXTS, Auth10, <<3, 1, lo, hi, 0>>)

AnimMixedSeg(lo, hi) == AppSeg(AnimExts, Auth10, <<3, 1, lo, hi, 0>>)

UnknownExtSeg == <<33, 2, 0>>

TrailerSeg == <<59>>

StraySeg == <<7>>

\* seg with its i-th byte replaced by v
Mutate(seg, i, v) == [seg EXCEPT ![i] = v]

Mutations(seg) == {Mutate(seg, i, v) : i \in 1..Len(seg), v \in MutationBytes}

RECURSIVE Flatten(_)
Flatten(ss) == IF ss = <<>> THEN <<>> ELSE Head(ss) \o Flatten(Tail(ss))

\* b without its last k bytes
Cut(b, k) == SubSeq(b, 1, Len(b) - k)

\* blocks combined freely with each other
CoreSegs ==
    {Image0, GCESeg \o Image0, CommentSeg, PlainTextSeg, GCESeg, NetLoopSeg(1, 0), AppGenericSeg}

\* what follows the last block
Tails == {<<>>, TrailerSeg}

RECURSIVE SeqsUpTo(_, _)
SeqsUpTo(S, n) ==
    IF n = 0 THEN {<<>>}
    ELSE LET shorter == SeqsUpTo(S, n - 1) IN
         shorter \cup {Append(q, x) : q \in shorter, x \in S}

\* blocks tried alone, or next to one other block
SoloSegs ==
    {Image2, Comment2Seg, GCEBadSeg, UnknownExtSeg, StraySeg}
    \cup {ImageLCT(N) : N \in 0..7}
    \cup {NetLoopSeg(lo, hi) : lo \in SampleBytes, hi \in SampleBytes}
    \cup {NetBufSeg(b0, b3) : b0 \in SampleBytes, b3 \in {0, 1, 127}}
    \cup {AnimUpperSeg(lo, hi) : lo \in SampleBytes, hi \in {0, 1}}
    \cup {AnimMixedSeg(lo, hi) : lo \in SampleBytes, hi \in {0, 1}}
    \cup Mutations(NetLoopSeg(1, 0))
    \cup Mutations(NetBufSeg(1, 0))
    \cup {GCESeg \o <<v>> : v \in {0, 1, 2, 33, 44, 59, 249}}
    \cup {GCESeg \o Image2, GCESeg \o ImageLCT(0)}

FollowSegs == {TrailerSeg, CommentSeg, Image0}

StandardPreamble == GIF89a \o LSD(0)

Preambles ==
    {h \o LSD(0) : h \in {GIF87a, NotGIF}}
    \cup {GIF89a \o LSD(128 + N) \o ColorTableBytes(N) : N \in 0..7}
    \cup {GIF89a \o LSD(N) : N \in 1..7}
    \cup {GIF89a \o LSD(112 + 8)}

Streams ==
    {StandardPreamble \o Flatten(q) \o t : q \in SeqsUpTo(CoreSegs, MaxSegs), t \in Tails}
    \cup {StandardPreamble \o s : s \in SoloSegs}
    \cup {StandardPreamble \o s \o f : s \in SoloSegs, f \in FollowSegs}
    \cup {StandardPreamble \o f \o s : s \in SoloSegs, f \in FollowSegs}
    \cup {p \o TrailerSeg : p \in Preambles}
    \cup {p \o Image0 \o TrailerSeg : p \in Preambles}
    \cup {GIF89a \o LSD(128 + N) \o ColorTableBytes(N) \o ImageLCT(7 - N) \o TrailerSeg : N \in 0..7}

Inputs == {Cut(b, k) : b \in Streams, k \in 0..MaxCut}

(***************************************************************************)
(* The decode of 'GIF Data Stream'                                         *)
(***************************************************************************)
Init ==
    /\ buf \in Inputs
    /\ pos = 0
    /\ pc = "Header"
    /\ header = NULL
    /\ screen = NULL
    /\ blocks = <<>>
    /\ GraphicBlockIndex = 0
    /\ trailer = NULL
    /\ error = NoError
    /\ spans = <<>>

\* A field of 'GIF Data Stream' whose parse gave r: the cursor moves, the
\* decode goes on with the field `next`, or stops on the error thrown
Field(r, next) ==
    /\ pos' = r.pos
    /\ error' = r.err
    /\ pc' = IF r.ok THEN next ELSE "error"

\* Header: 'Header'
ParseHeader ==
    /\ pc = "Header"
    /\ Field(Header(buf, pos), "LogicalScreen")
    /\ header' = Header(buf, pos).val
    /\ UNCHANGED <<buf, screen, blocks, GraphicBlockIndex, trailer, spans>>

\* LogicalScreen: 'LogicalScreen'
ParseLogicalScreen ==
    /\ pc = "LogicalScreen"
    /\ Field(LogicalScreen(buf, pos), "DataBlocks")
    /\ screen' = LogicalScreen(buf, pos).val
    /\ UNCHANGED <<buf, header, blocks, GraphicBlockIndex, trailer, spans>>

\* The effect of one pass of the sequencer loop with outcome o
Pass(o) ==
    /\ pos' = o.pos
    /\ blocks' = blocks \o o.push
    /\ spans' = spans \o o.span
    /\ GraphicBlockIndex' = o.idx
    /\ error' = o.err
    /\ pc' = CASE o.status = "continue" -> "DataBlocks"
               [] o.status = "break" -> "Trailer"
               [] OTHER -> "error"
    /\ UNCHANGED <<buf, header, screen, trailer>>

InLoop == pc = "DataBlocks" /\ Len(blocks) < MaxBlocks

\* let Introducer = this.parse('Byte')
Introducer == Byte(buf, pos)

\* let ExtensionLabel = this.parse('label')
ExtensionLabel == Byte(buf, pos + 1)

IsExtension == Introducer.ok /\ Introducer.val = ExtensionIntroducer

Classified(key) == IsExtension /\ ExtensionLabel.ok /\ ExtensionKey(ExtensionLabel.val) = key

\* the read of the introducer or of the label runs off the buffer
IterEndOfStream ==
    /\ InLoop
    /\ \/ ~Introducer.ok
       \/ IsExtension /\ ~ExtensionLabel.ok
    /\ Pass(IF ~Introducer.ok
            THEN Throw(Introducer.pos, GraphicBlockIndex, Introducer.err)
            ELSE Throw(ExtensionLabel.pos, GraphicBlockIndex, ExtensionLabel.err))

IterTableBasedImage ==
    /\ InLoop
    /\ Introducer.ok /\ Introducer.val = ImageDescriptorLabel
    /\ Pass(TableBasedImageCase(buf, pos, GraphicBlockIndex))

\* Not Extension: seek(before); break
IterNotExtension ==
    /\ InLoop
    /\ Introducer.ok
    /\ Introducer.val # ImageDescriptorLabel
    /\ Introducer.val # ExtensionIntroducer
    /\ Pass(Break(pos, GraphicBlockIndex))

\* if (!ExtensionKey) { seek(before); break }
IterUnknownLabel ==
    /\ InLoop
    /\ Classified("undefined")
    /\ Pass(Break(pos, GraphicBlockIndex))

IterComment ==
    /\ InLoop
    /\ Classified("CommentExtension")
    /\ Pass(CommentCase(buf, pos, GraphicBlockIndex))

IterApplication ==
    /\ InLoop
    /\ Classified("ApplicationExtension")
    /\ Pass(ApplicationCase(buf, pos, GraphicBlockIndex))

IterGraphicControl ==
    /\ InLoop
    /\ Classified("GraphicControlExtension")
    /\ Pass(GraphicControlCase(buf, pos, GraphicBlockIndex))

IterPlainText ==
    /\ InLoop
    /\ Classified("PlainTextExtension")
    /\ Pass(PlainTextCase(buf, pos, GraphicBlockIndex))

\* Trailer: 'Trailer'
ParseTrailer ==
    /\ pc = "Trailer"
    /\ Field(Trailer(buf, pos), "done")
    /\ trailer' = Trailer(buf, pos).val
    /\ UNCHANGED <<buf, header, screen, blocks, GraphicBlockIndex, spans>>

Next ==
    \/ ParseHeader
    \/ ParseLogicalScreen
    \/ IterEndOfStream
    \/ IterTableBasedImage
    \/ IterNotExtension
    \/ IterUnknownLabel
    \/ IterComment
    \/ IterApplication
    \/ IterGraphicControl
    \/ IterPlainText
    \/ ParseTrailer

Spec == Init /\ [][Next]_vars

(***************************************************************************)
(* The fixed-value validators on their own: one call parser.parse([name,   *)
(* expectation]) on a buffer, with the cursor anywhere in it. pc is the    *)
(* validator to call, then "returned" or "thrown"; the value returned is   *)
(* kept in `trailer`, the error thrown in `error`.                         *)
(***************************************************************************)
\* Longest buffer handed to a validator
MaxValidatorLen == 4

\* Byte values of the buffers and of the expectations: '!' and 'G'
ValidatorBytes == {33, 71}

ValidatorBuffers == SeqsUpTo(ValidatorBytes, MaxValidatorLen)

\* Expectations of width 1, 2 and 3
ExpectSequences == {<<33>>, <<71>>, <<33, 71>>, <<71, 71>>, <<71, 33, 33>>}

ValidatorCalls == {"FixedByte", "FixedByte number", "FixedByteArray", "FixedString"}

InitValidator ==
    /\ buf \in ValidatorBuffers
    /\ pos \in 0..Len(buf)
    /\ pc \in ValidatorCalls
    /\ header = NULL
    /\ screen = NULL
    /\ blocks = <<>>
    /\ GraphicBlockIndex = 0
    /\ trailer = NULL
    /\ error = NoError
    /\ spans = <<>>

\* The call gave r: the cursor is where the validator left it, the value
\* is returned or the error thrown
Validated(r) ==
    /\ pos' = r.pos
    /\ trailer' = r.val
    /\ error' = r.err
    /\ pc' = IF r.ok THEN "returned" ELSE "thrown"
    /\ UNCHANGED <<buf, header, screen, blocks, GraphicBlockIndex, spans>>

\* ['FixedByte', expectValue]
CallFixedByte ==
    /\ pc = "FixedByte"
    /\ \E expectValue \in ValidatorBytes :
          Validated(FixedByte(buf, pos, expectValue, "", ""))

\* ['FixedByte', expectValue, '', 'number']
CallFixedByteNumber ==
    /\ pc = "FixedByte number"
    /\ \E expectValue \in ValidatorBytes :
          Validated(FixedByte(buf, pos, expectValue, "", "number"))

\* ['FixedByteArray', expectBytes]
CallFixedByteArray ==
    /\ pc = "FixedByteArray"
    /\ \E expectBytes \in ExpectSequences :
          Validated(FixedByteArray(buf, pos, expectBytes))

\* ['FixedString', expectValue]
CallFixedString ==
    /\ pc = "FixedString"
    /\ \E expectValue \in ExpectSequences :
          Validated(FixedString(buf, pos, expectValue, "Fixed String"))

NextValidator ==
    \/ CallFixedByte
    \/ CallFixedByteNumber
    \/ CallFixedByteArray
    \/ CallFixedString

SpecValidator == InitValidator /\ [][NextValidator]_vars

(***************************************************************************)
(* Properties                                                              *)
(***************************************************************************)
\* The byte at 0-based offset o of the buffer
At(o) == buf[o + 1]

\* The n bytes of the buffer from offset o on (none of them missing)
Has(o, bytes) == o + Len(bytes) <= Len(buf) /\ SubSeq(buf, o + 1, o + Len(bytes)) = bytes

\* The block pushed by the step
Pushed == blocks'[Len(blocks')]

PushedOne == Len(blocks') = Len(blocks) + 1 /\ SubSeq(blocks', 1, Len(blocks)) = blocks

IsApplication(blk) == blk.blockType = "ApplicationExtension"

\* An Application Extension block of one of the vendor variants
IsVendor(blk) == IsApplication(blk) /\ "Netscape" \in DOMAIN blk.ExtensionBlock

IsGeneric(blk) == IsApplication(blk) /\ "Netscape" \notin DOMAIN blk.ExtensionBlock

IsLooping(blk, identifier) ==
    /\ IsVendor(blk)
    /\ blk.ExtensionBlock.Netscape = "Looping"
    /\ blk.ExtensionBlock.ApplicationIdentifier = identifier
    /\ Len(blk.ExtensionBlock.ApplicationData) = 1
    /\ "LoopCount" \in DOMAIN blk.ExtensionBlock.ApplicationData[1]

\* The sequencer is about to classify an Application Extension with
\* identifier NETSCAPE that parses as generic and under neither strict layout
NetscapeGenericOnly ==
    /\ pc = "DataBlocks"
    /\ ApplicationExtension(buf, pos).ok
    /\ ApplicationExtension(buf, pos).val.ApplicationIdentifier = NETSCAPE
    /\ ~NetscapeLoopingApplicationExtension(buf, pos).ok
    /\ ~NetscapeBufferingApplicationExtension(buf, pos).ok

\* C1: an Application Extension with identifier NETSCAPE that fits only the
\* generic layout is pushed once as a generic block, the cursor is left just
\* past its Block Terminator and the loop goes on with the next block.
C1_FallbackAdvances ==
    [][NetscapeGenericOnly =>
          /\ pc' = "DataBlocks"
          /\ PushedOne
          /\ IsGeneric(Pushed)
          /\ pos' = ApplicationExtension(buf, pos).pos]_vars

\* C2: the sequencer loop never pushes more blocks than the buffer has bytes
\* (so it stops on every finite buffer).
C2_BlocksBoundedByBuffer == Len(blocks) <= Len(buf)

\* The 19 bytes of a Netscape Looping extension with loop count lo + 256 * hi
LoopingBytes(identifier, authentication, lo, hi) ==
    <<33, 255, 11>> \o identifier \o authentication \o <<3, 1, lo, hi, 0>>

\* The sequencer is about to classify the Looping extension of `identifier`
AtLooping(identifier, authentication) ==
    /\ pc = "DataBlocks"
    /\ pos + 19 <= Len(buf)
    /\ Has(pos, LoopingBytes(identifier, authentication, At(pos + 16), At(pos + 17)))

\* The step pushed the Looping variant of `identifier`, with the loop count
\* of the bytes at offsets 16 and 17 of the extension, and left the cursor
\* just past the terminator
PushedLooping(identifier) ==
    /\ pc' = "DataBlocks"
    /\ PushedOne
    /\ IsLooping(Pushed, identifier)
    /\ Pushed.ExtensionBlock.ApplicationData[1].LoopCount = At(pos + 16) + 256 * At(pos + 17)
    /\ pos' = pos + 19

\* C3: bytes 21 FF 0B "NETSCAPE" "2.0" 03 01 lo hi 00 are pushed as exactly
\* one block of the Netscape Looping variant with loop count lo + 256 * hi,
\* and the cursor ends just past the terminator.
C3_NetscapeLooping ==
    [][AtLooping(NETSCAPE, Auth20) => PushedLooping(NETSCAPE)]_vars

\* C3 witness: a Netscape Looping block with loop count 65535 was pushed and
\* the cursor stands just past it.
C3_Witness ==
    /\ pc = "DataBlocks"
    /\ blocks # <<>>
    /\ IsLooping(blocks[Len(blocks)], NETSCAPE)
    /\ blocks[Len(blocks)].ExtensionBlock.ApplicationData[1].LoopCount = 65535
    /\ pos = spans[Len(spans)].last
    /\ pos = spans[Len(spans)].first + 19

IsGraphic(blk) == blk.blockType = "Graphic Block"

\* A Graphic Block pushed by the 0x2C branch keeps its parts under `block`
IsBareImage(blk) == IsGraphic(blk) /\ "block" \in DOMAIN blk

\* The control extension and the rendering block of a Graphic Block
ControlOf(blk) ==
    IF IsBareImage(blk) THEN blk.block.GraphicControlExtension ELSE blk.GraphicControlExtension

RenderingOf(blk) ==
    IF IsBareImage(blk) THEN blk.block.GraphicRenderingBlock ELSE blk.GraphicRenderingBlock

IsImage(r) == "ImageDescriptor" \in DOMAIN r

IsPlainText(r) == "PlainTextData" \in DOMAIN r

\* A well-formed Graphic Control Extension lies at offset o
ControlAt(o) ==
    /\ o + 8 <= Len(buf)
    /\ At(o) = 33 /\ At(o + 1) = 249 /\ At(o + 7) = 0

\* The step pushed one Graphic Block that pairs the control extension at
\* the cursor with the rendering block r parsed right after it
PushedPair(r) ==
    /\ pc' = "DataBlocks"
    /\ PushedOne
    /\ IsGraphic(Pushed)
    /\ ControlOf(Pushed) = GraphicControlExtension(buf, pos).val
    /\ RenderingOf(Pushed) = r.val
    /\ pos' = r.pos

\* C4: a well-formed Graphic Control Extension followed by a well-formed
\* Plain Text Extension, or by a well-formed Table-Based Image, is pushed as
\* one Graphic Block that pairs the two, without error.
C4_ControlPairsWithRendering ==
    [][(pc = "DataBlocks" /\ ControlAt(pos)) =>
          /\ PlainTextExtension(buf, pos + 8).ok => PushedPair(PlainTextExtension(buf, pos + 8))
          /\ (pos + 8 < Len(buf) /\ At(pos + 8) = 44 /\ TableBasedImage(buf, pos + 8).ok)
                => PushedPair(TableBasedImage(buf, pos + 8))]_vars

GraphicBlocks == SelectSeq(blocks, IsGraphic)

\* C5: in a returned block list the k-th Graphic Block carries index k.
C5_GraphicBlockIndices ==
    pc \in {"Trailer", "done"} =>
        \A k \in 1..Len(GraphicBlocks) : GraphicBlocks[k].GraphicBlockIndex = k

\* C5 witness: a decoded stream with a paired image as Graphic Block 1, a
\* Special-Purpose block after it and a bare Plain Text as Graphic Block 2.
C5_Witness ==
    /\ pc = "done"
    /\ Len(blocks) = 3
    /\ IsGraphic(blocks[1]) /\ ~IsBareImage(blocks[1]) /\ ControlOf(blocks[1]) # NULL
    /\ blocks[1].GraphicBlockIndex = 1
    /\ ~IsGraphic(blocks[2])
    /\ IsGraphic(blocks[3]) /\ IsPlainText(RenderingOf(blocks[3])) /\ ControlOf(blocks[3]) = NULL
    /\ blocks[3].GraphicBlockIndex = 2

RECURSIVE ChainBytes(_, _)
ChainBytes(subs, k) ==
    IF k = 0 THEN 0 ELSE ChainBytes(subs, k - 1) + 1 + subs[k].size

\* The sub-blocks recorded for a chain that starts at offset chainStart are
\* those of the buffer, and the parse of the record ended at offset last,
\* just past the zero length byte that ends the chain
ChainRecorded(chainStart, subs, last) ==
    /\ \A k \in 1..Len(subs) :
          /\ subs[k].size \in 1..255
          /\ subs[k].start = chainStart + ChainBytes(subs, k - 1) + 1
          /\ At(subs[k].start - 1) = subs[k].size
          /\ k > 1 => subs[k].start > subs[k - 1].start
    /\ At(chainStart + ChainBytes(subs, Len(subs))) = 0
    /\ last = chainStart + ChainBytes(subs, Len(subs)) + 1

\* Offset of the chain in a Table-Based Image that starts at offset o:
\* descriptor, color table, LZW minimum code size
ImageChainStart(o, image) == o + 10 + 3 * Len(image.LocalColorTable) + 1

\* Offset of the chain in the rendering block r that starts at offset o
RenderingChainStart(o, r) == IF IsImage(r) THEN ImageChainStart(o, r) ELSE o + 15

RenderingChain(r) == IF IsImage(r) THEN r.ImageData.DataSubBlocks ELSE r.PlainTextData

\* Offset of the rendering block in a Graphic Block that starts at offset o
RenderingStart(o, blk) == IF ControlOf(blk) = NULL THEN o ELSE o + 8

\* The chain of the i-th pushed block is recorded as it lies in the buffer
BlockChainRecorded(i) ==
    CASE blocks[i].blockType = "CommentExtension" ->
            ChainRecorded(spans[i].first + 2, blocks[i].ExtensionBlock.CommentData,
                          spans[i].last)
      [] IsGeneric(blocks[i]) ->
            ChainRecorded(spans[i].first + 14, blocks[i].ExtensionBlock.ApplicationData,
                          spans[i].last)
      [] IsGraphic(blocks[i]) ->
            ChainRecorded(RenderingChainStart(RenderingStart(spans[i].first, blocks[i]),
                                              RenderingOf(blocks[i])),
                          RenderingChain(RenderingOf(blocks[i])),
                          spans[i].last)
      [] OTHER -> TRUE

\* C7: in every record with a Sub-block Chain and its Block Terminator, each
\* sub-block has size 1..255 and starts just after its length byte, starts
\* increase, the chain ends at the first zero length byte and the record
\* ends at chainStart + sum(1 + size) + 1.
C7_SubBlockChains == \A i \in 1..Len(blocks) : BlockChainRecorded(i)

\* C7 witness: a Comment Extension with two sub-blocks was pushed, the
\* second of which holds a zero byte.
C7_Witness ==
    \E i \in 1..Len(blocks) :
        /\ blocks[i].blockType = "CommentExtension"
        /\ Len(blocks[i].ExtensionBlock.CommentData) = 2
        /\ blocks[i].ExtensionBlock.CommentData[2].size = 3
        /\ At(blocks[i].ExtensionBlock.CommentData[2].start) = 0

\* The color table read at offset o for packed byte `packed` is `table`
\* and the read ended at offset `after`
TableRecorded(o, packed, table, after) ==
    IF packed \div 128 = 1
    THEN /\ Len(table) = 2 ^ ((packed % 8) + 1)
         /\ \A k \in 1..Len(table) : table[k] = SubSeq(buf, o + 3 * k - 2, o + 3 * k)
         /\ after = o + 3 * (2 ^ ((packed % 8) + 1))
    ELSE table = NULL /\ after = o

\* C8: with flag 1 and size field N a color table has 2^(N+1) entries of 3
\* bytes and moves the cursor by 3 * 2^(N+1); with flag 0 it is null and the
\* cursor stays. Global table: the step that reads the Logical Screen.
\* Local table: the step that reads a Table-Based Image, whose chain starts
\* one byte after the table.
C8_ColorTables ==
    [][/\ (pc = "LogicalScreen" /\ pos + 7 <= Len(buf)) =>
             /\ pc' = "DataBlocks" <=>
                    (At(pos + 4) < 128 \/ pos + 7 + 3 * (2 ^ ((At(pos + 4) % 8) + 1)) <= Len(buf))
             /\ pc' = "DataBlocks" =>
                    TableRecorded(pos + 7, At(pos + 4), screen'.GlobalColorTable, pos')
       /\ (pc = "DataBlocks" /\ PushedOne /\ IsGraphic(Pushed) /\ IsImage(RenderingOf(Pushed))) =>
             TableRecorded(RenderingStart(pos, Pushed) + 10,
                           At(RenderingStart(pos, Pushed) + 9),
                           RenderingOf(Pushed).LocalColorTable,
                           pos' - 2 - ChainBytes(RenderingOf(Pushed).ImageData.DataSubBlocks,
                                                 Len(RenderingOf(Pushed).ImageData.DataSubBlocks)))
      ]_vars

\* C8 witness: a decoded stream with a global table of 2 entries and an
\* image with a local table of 256 entries.
C8_Witness ==
    /\ pc = "done"
    /\ Len(screen.GlobalColorTable) = 2
    /\ Len(blocks) = 1
    /\ IsBareImage(blocks[1])
    /\ Len(RenderingOf(blocks[1]).LocalColorTable) = 256

\* The chain at offset o runs off the buffer inside a payload: a length
\* byte L is there and fewer than L bytes follow it
RECURSIVE TruncatedInPayload(_)
TruncatedInPayload(o) ==
    /\ o < Len(buf)
    /\ At(o) # 0
    /\ \/ o + 1 + At(o) > Len(buf)
       \/ TruncatedInPayload(o + 1 + At(o))

\* Every sub-block recorded in a pushed block lies within the buffer
RangesWithinBuffer ==
    \A i \in 1..Len(blocks) :
        LET subs == CASE blocks[i].blockType = "CommentExtension" ->
                            blocks[i].ExtensionBlock.CommentData
                      [] IsApplication(blocks[i]) -> blocks[i].ExtensionBlock.ApplicationData
                      [] OTHER -> RenderingChain(RenderingOf(blocks[i]))
        IN  \A k \in 1..Len(subs) : subs[k].start + subs[k].size <= Len(buf)

\* The sequencer is about to classify a block whose chain is cut short
AtTruncatedChain ==
    /\ pc = "DataBlocks"
    /\ pos + 2 <= Len(buf)
    /\ \/ At(pos) = 33 /\ At(pos + 1) = 254 /\ TruncatedInPayload(pos + 2)
       \/ At(pos) = 33 /\ At(pos + 1) = 255 /\ TruncatedInPayload(pos + 14)
       \/ At(pos) = 33 /\ At(pos + 1) = 1 /\ TruncatedInPayload(pos + 15)
       \/ At(pos) = 44 /\ pos + 10 <= Len(buf) /\ At(pos + 9) < 128
            /\ TruncatedInPayload(pos + 11)

\* C9: a buffer that ends inside the payload of a sub-block makes the decode
\* fail with a truncation error, and no pushed block ever records a
\* sub-block that reaches past the end of the buffer.
C9_TruncatedSubBlock ==
    [][/\ AtTruncatedChain => (pc' = "error" /\ error'.kind = "Truncation" /\ blocks' = blocks)
       /\ RangesWithinBuffer']_vars

\* C9 witness: the first block is a Comment Extension and the decode failed
\* with a truncation error raised at the payload of a sub-block of length 2
\* of which the buffer holds one byte.
C9_Witness ==
    /\ pc = "error"
    /\ error.kind = "Truncation"
    /\ blocks = <<>>
    /\ Has(13, <<33, 254>>)
    /\ TruncatedInPayload(15)
    /\ error.position = Len(buf) - 1
    /\ At(error.position - 1) = 2

\* C10: bytes 21 FF 0B "ANIMEXTS" "1.0" 03 01 lo hi 00 are pushed as the
\* AnimExts Looping variant with loop count lo + 256 * hi.
C10_AnimExtsLooping ==
    [][AtLooping(ANIMEXTS, Auth10) => PushedLooping(ANIMEXTS)]_vars

\* The 21 bytes of a Netscape Buffering extension whose buffer size is held
\* in the bytes b0..b3
BufferingBytes(b0, b1, b2, b3) ==
    <<33, 255, 11>> \o NETSCAPE \o Auth20 \o <<5, 2, b0, b1, b2, b3, 0>>

\* The sequencer is about to classify a Netscape Buffering extension
AtBuffering ==
    /\ pc = "DataBlocks"
    /\ pos + 21 <= Len(buf)
    /\ Has(pos, BufferingBytes(At(pos + 16), At(pos + 17), At(pos + 18), At(pos + 19)))

IsBuffering(blk) ==
    /\ IsVendor(blk)
    /\ blk.ExtensionBlock.Netscape = "Buffering"
    /\ blk.ExtensionBlock.ApplicationIdentifier = NETSCAPE
    /\ Len(blk.ExtensionBlock.ApplicationData) = 1
    /\ "BufferSize" \in DOMAIN blk.ExtensionBlock.ApplicationData[1]

\* C11: bytes 21 FF 0B "NETSCAPE" "2.0" 05 02 b0 b1 b2 b3 00 are pushed as
\* exactly one block of the Netscape Buffering variant whose buffer size is
\* the little-endian value of b0..b3: the Looping attempt fails and leaves
\* the cursor at the block start, the Buffering attempt made there succeeds,
\* and the cursor ends just past the terminator.
C11_NetscapeBuffering ==
    [][AtBuffering =>
          /\ ~NetscapeLoopingApplicationExtension(buf, pos).ok
          /\ TRY(pos, NetscapeLoopingApplicationExtension(buf, pos)) = Ok(pos, NULL)
          /\ NetscapeBufferingApplicationExtension(buf, pos).ok
          /\ pc' = "DataBlocks"
          /\ PushedOne
          /\ IsBuffering(Pushed)
          /\ Pushed.ExtensionBlock.ApplicationData[1].BufferSize =
                At(pos + 16) + 256 * At(pos + 17) + 65536 * At(pos + 18)
                    + 16777216 * At(pos + 19)
          /\ Pushed.ExtensionBlock.ApplicationData[1].start = pos + 15
          /\ pos' = pos + 21]_vars

\* C11 witness: the only block pushed is a Netscape Buffering block with
\* buffer size 0x7F0001FF and the cursor stands just past its terminator.
C11_Witness ==
    /\ pc = "DataBlocks"
    /\ Len(blocks) = 1
    /\ IsBuffering(blocks[1])
    /\ blocks[1].ExtensionBlock.ApplicationData[1].BufferSize = 2130706943
    /\ pos = spans[1].last
    /\ pos = spans[1].first + 21

\* The buffer is "GIF89a", a Logical Screen Descriptor whose
\* GlobalColorTableFlag is 0, and the single byte 0x3B
IsMinimalStream ==
    /\ Len(buf) = 14
    /\ Has(0, GIF89a)
    /\ At(10) < 128
    /\ At(13) = 59

\* C12: the minimal stream decodes without error, one field after another,
\* to a tree with an empty Data Blocks sequence, no Global Color Table and a
\* validated Trailer, with the cursor at the end of the buffer.
C12_MinimalStream ==
    /\ [](IsMinimalStream => (pc # "error" /\ (pc # "done" => ENABLED Next)))
    /\ [][IsMinimalStream =>
            /\ pc = "Header" =>
                  /\ pc' = "LogicalScreen"
                  /\ header' = [Signature |-> <<71, 73, 70>>, Version |-> <<56, 57, 97>>]
            /\ pc = "LogicalScreen" =>
                  /\ pc' = "DataBlocks"
                  /\ screen'.GlobalColorTable = NULL
                  /\ screen'.Descriptor.PackedFields.GlobalColorTableFlag = 0
                  /\ pos' = 13
            /\ pc = "DataBlocks" =>
                  /\ pc' = "Trailer"
                  /\ pos' = 13
            /\ pc = "Trailer" =>
                  /\ pc' = "done"
                  /\ trailer' = byteToHex(59)
                  /\ pos' = Len(buf)
            /\ blocks' = <<>>
            /\ GraphicBlockIndex' = 0
            /\ error' = NoError]_vars

\* C12 witness: the minimal stream whose descriptor has every bit of the
\* packed byte set except the flag is decoded.
C12_Witness ==
    /\ IsMinimalStream
    /\ At(10) = 120
    /\ pc = "done"
    /\ blocks = <<>>
    /\ screen.GlobalColorTable = NULL
    /\ trailer = byteToHex(59)
    /\ pos = Len(buf)

\* C13: in every tree returned by a successful decode Header.Signature is
\* "GIF".
C13_SignatureIsGIF == pc = "done" => header.Signature = <<71, 73, 70>>

\* The sequencer is about to classify an Application Extension that parses
\* under the generic layout and carries the given identifier
AtApplication(identifier) ==
    /\ pc = "DataBlocks"
    /\ ApplicationExtension(buf, pos).ok
    /\ ApplicationExtension(buf, pos).val.ApplicationIdentifier = identifier

\* The step pushed one Application Extension block with value r.val and
\* left the cursor at offset p
PushedApplication(r, p) ==
    /\ PushedOne
    /\ IsApplication(Pushed)
    /\ Pushed.ExtensionBlock = r.val
    /\ pos' = p

\* C14: every speculative attempt on an Application Extension starts at the
\* block's first byte; an attempt that fails at any field leaves the cursor
\* at that byte and yields no value (the next attempt starts there, and when
\* no attempt is left the generic value is pushed with the cursor there); an
\* attempt that succeeds leaves the cursor just past the parsed structure.
C14_TryRestoresCursor ==
    [][/\ AtApplication(NETSCAPE) =>
            IF NetscapeLoopingApplicationExtension(buf, pos).ok
            THEN /\ PushedApplication(NetscapeLoopingApplicationExtension(buf, pos), pos + 19)
                 /\ At(pos' - 1) = 0
            ELSE IF NetscapeBufferingApplicationExtension(buf, pos).ok
            THEN /\ PushedApplication(NetscapeBufferingApplicationExtension(buf, pos), pos + 21)
                 /\ At(pos' - 1) = 0
            ELSE PushedApplication(ApplicationExtension(buf, pos), pos)
       /\ AtApplication(AnimExts) =>
            IF AnimExtsLoopingApplicationExtension(buf, pos).ok
            THEN PushedApplication(AnimExtsLoopingApplicationExtension(buf, pos), pos + 19)
            ELSE PushedApplication(ApplicationExtension(buf, pos), pos)]_vars

\* C14 witness: the Looping attempt failed at the last field of the layout
\* (the terminator, 17 bytes into the block), the Buffering attempt failed
\* too, the generic value with its two sub-blocks was pushed and the cursor
\* stands at the first byte of the block.
C14_Witness ==
    /\ pc = "DataBlocks"
    /\ Len(blocks) = 1
    /\ IsGeneric(blocks[1])
    /\ blocks[1].ExtensionBlock.ApplicationIdentifier = NETSCAPE
    /\ Len(blocks[1].ExtensionBlock.ApplicationData) = 2
    /\ Has(spans[1].first + 14, <<3, 1>>)
    /\ At(spans[1].first + 18) # 0
    /\ pos = spans[1].first

\* C15: the start offsets of the pushed blocks are strictly increasing, and
\* every pass that pushes a block leaves the cursor strictly beyond the
\* offset at which the pass started.
C15_OneEntryPerBlock ==
    [][(pc = "DataBlocks" /\ PushedOne) =>
          /\ pos' > pos
          /\ spans'[Len(spans')].first = pos
          /\ \A i \in 1..Len(spans) : spans[i].first < spans'[Len(spans')].first]_vars

\* The sequencer is about to read an introducer that is neither 0x2C nor
\* 0x21, or 0x21 followed by a label that is none of 0xF9, 0x01, 0xFE, 0xFF
AtUnrecognized ==
    /\ InLoop
    /\ pos < Len(buf)
    /\ \/ At(pos) \notin {44, 33}
       \/ /\ At(pos) = 33
          /\ pos + 1 < Len(buf)
          /\ At(pos + 1) \notin {249, 1, 254, 255}

\* C16: on such a byte the sequencer stops without error, the cursor is at
\* the offset of the introducer, and the block list and the Graphic-Block
\* counter are as they were before the pass.
C16_UnrecognizedStopsLoop ==
    [][AtUnrecognized =>
          /\ pc' = "Trailer"
          /\ error' = NoError
          /\ pos' = pos
          /\ blocks' = blocks
          /\ GraphicBlockIndex' = GraphicBlockIndex]_vars

\* C16 witness: after one Graphic Block the sequencer stopped on an
\* extension with the unknown label 0x02, the cursor on its introducer.
C16_Witness ==
    /\ pc = "Trailer"
    /\ error = NoError
    /\ Len(blocks) = 1
    /\ GraphicBlockIndex = 1
    /\ pos = spans[1].last
    /\ Has(pos, <<33, 2>>)

\* The byte at the cursor is the Trailer 0x3B
TrailerAhead == pos < Len(buf) /\ At(pos) = 59

\* C17: the decode returns a tree only if the byte at the offset where the
\* sequencer stopped is 0x3B; with any other byte there, or none, the decode
\* stops with an error and never returns a tree.
C17_TrailerRequired ==
    /\ [](pc = "done" =>
            (error = NoError /\ trailer = byteToHex(59) /\ At(pos - 1) = 59))
    /\ [][/\ (pc = "Trailer" /\ ~TrailerAhead) =>
                /\ pc' = "error"
                /\ trailer' = NULL
                /\ IF pos < Len(buf)
                   THEN error' = [kind |-> "FixedByte", name |-> "Trailer",
                                  expect |-> <<59>>, actual |-> <<At(pos)>>,
                                  position |-> pos]
                   ELSE error'.kind = "Truncation"
          /\ pc' = "done" => (pc = "Trailer" /\ TrailerAhead /\ pos' = pos + 1)
          /\ pc = "error" => pc' = "error"]_vars

\* C17 witness: after a pushed block the sequencer stopped on the introducer
\* 0x21 of an extension with an unrecognized label and the decode failed on
\* the Trailer.
C17_Witness ==
    /\ pc = "error"
    /\ error.kind = "FixedByte"
    /\ error.name = "Trailer"
    /\ error.actual = <<33>>
    /\ blocks # <<>>
    /\ trailer = NULL
    /\ At(error.position) = 33

\* The expectations a validator call is made with
Expectations(call) ==
    IF call \in {"FixedByte", "FixedByte number"}
    THEN {<<v>> : v \in ValidatorBytes}
    ELSE ExpectSequences

\* The value a call of the validator returns for the expectation e is the
\* validated value: the byte or its hexadecimal form, the bytes in
\* hexadecimal, the string
ReturnsValidated(call, e, value) ==
    CASE call = "FixedByte" -> value = byteToHex(e[1])
      [] call = "FixedByte number" -> value = e[1]
      [] call = "FixedByteArray" -> value = bytesToHex(e)
      [] call = "FixedString" -> value = e

\* C18: a validator that meets other bytes than it expects throws an error
\* that carries the expected value, the actual value (the bytes it read)
\* and, as position, the offset of the cursor before the read, whatever the
\* width of the expectation; a validator that meets the bytes it expects
\* returns the validated value with the cursor advanced by the width.
C18_ValidatorContract ==
    [][(pc \in ValidatorCalls) =>
          /\ (pc' = "thrown" /\ error'.kind # "Truncation") =>
                /\ error'.expect \in Expectations(pc)
                /\ Len(error'.actual) = Len(error'.expect)
                /\ Has(pos, error'.actual)
                /\ error'.actual # error'.expect
                /\ error'.position = pos
          /\ pc' = "returned" =>
                (\E e \in Expectations(pc) :
                    /\ Has(pos, e)
                    /\ ReturnsValidated(pc, e, trailer')
                    /\ pos' = pos + Len(e))]_vars

====
